---- MODULE Spec2Model ----
(***************************************************************************)
(* A model of the cycle-accurate 6502 core of src/src/lib.rs: the W6502    *)
(* struct, tick() with its micro-op dispatcher, decode_op(), and the       *)
(* cycle() utility that lowers and raises the clock.                       *)
(***************************************************************************)
EXTENDS Integers, Sequences, FiniteSets, TLC

VARIABLES
    cpu,              \* the W6502 struct
    result,           \* what the latest call returned: "Ok", "Err", or "Panic"
    inputs,           \* the Inputs of the latest call
    decodes,          \* number of opcodes handed to decode_op so far
    resets,           \* number of times n_reset was driven low so far
    held,             \* cycles n_reset was held low in the latest reset
    overflow_checks,  \* build profile: TRUE when u16 overflow panics (debug)
    ran,              \* a tick with n_reset high has happened
    lateReset,        \* a tick with n_reset low has happened after ran
    sinceRel,         \* cycles since the latest reset was released
    vec,              \* the bytes the bus returned for 0xFFFC and 0xFFFD
    instr,            \* the opcode last decoded, and the cycles since its fetch
    mem,              \* the memory the CPU is wired to (SpecMem)
    rt,               \* progress of a STA zpg / LDA zpg pair (SpecMem)
    edge              \* the latest tick() call saw a rising clock edge (SpecTick)

vars == <<cpu, result, inputs, decodes, resets, held, overflow_checks, ran, lateReset,
          sinceRel, vec, instr, mem, rt, edge>>

-----------------------------------------------------------------------------
(* Bounds *)

MaxInstr == 2
MaxMemInstr == 4
MaxResets == 1
MaxHeld == 3
TrackLen == 10

-----------------------------------------------------------------------------
(* Data types of lib.rs *)

U16 == 65536
U8 == 256

None == [some |-> FALSE, v |-> 0]
Some(v) == [some |-> TRUE, v |-> v]

Nop == [op |-> "Nop"]
Fetch == [op |-> "Fetch"]
ResetRegs == [op |-> "ResetRegs"]
ReadPC(first, addr) == [op |-> "ReadPC", first |-> first, addr |-> addr]
Read(src, reg) == [op |-> "Read", src |-> src, reg |-> reg]
Write(dst, val) == [op |-> "Write", dst |-> dst, val |-> val]

Address(v) == [kind |-> "Address", v |-> v]
RegVal(reg) == [kind |-> "RegVal", reg |-> reg]

OutputsNew == [address |-> 65535, data |-> None, rwb |-> TRUE, sync |-> FALSE]

\* A faulty zero() that restores rwb and leaves the data as it was.
zero_keeps_data(o) == [o EXCEPT !.rwb = TRUE]

\* A faulty zero() that clears the data and leaves rwb as it was.
zero_keeps_rwb(o) == [o EXCEPT !.data = None]

zero(o) == [o EXCEPT !.data = None, !.rwb = TRUE]

W6502New ==
    [outputs |-> OutputsNew, prev_clk |-> FALSE, queue |-> <<>>,
     active_uop |-> Nop,
     pc |-> 51966, acc |-> 170, flags |-> 255, sp |-> 252, x |-> 188,
     y |-> 202, scratch1 |-> 0]

-----------------------------------------------------------------------------
(* Helpers of impl W6502 *)

set_addr(s, value) == [s EXCEPT !.outputs.address = value]

\* A faulty set_data() that presents the data and leaves rwb = read.
set_data_keeps_rwb(s, value) == [s EXCEPT !.outputs.data = Some(value)]

set_data(s, value) == [s EXCEPT !.outputs.data = Some(value), !.outputs.rwb = FALSE]

\* A faulty mut_reg() whose Acc arm hands out x.
mut_reg_acc_is_x(s, reg) ==
    CASE reg = "Acc" -> s.x
      [] reg = "X" -> s.x
      [] reg = "Y" -> s.y
      [] reg = "Scratch1" -> s.scratch1

\* *self.mut_reg(reg), read
mut_reg(s, reg) ==
    CASE reg = "Acc" -> s.acc
      [] reg = "X" -> s.x
      [] reg = "Y" -> s.y
      [] reg = "Scratch1" -> s.scratch1

\* *self.mut_reg(reg) = v
mut_reg_set(s, reg, v) ==
    CASE reg = "Acc" -> [s EXCEPT !.acc = v]
      [] reg = "X" -> [s EXCEPT !.x = v]
      [] reg = "Y" -> [s EXCEPT !.y = v]
      [] reg = "Scratch1" -> [s EXCEPT !.scratch1 = v]

source(s, src) ==
    IF src.kind = "Address" THEN src.v ELSE mut_reg(s, src.reg)

-----------------------------------------------------------------------------
(* decode_op *)

Ok(s) == [cpu |-> s, res |-> "Ok"]
Err(s) == [cpu |-> s, res |-> "Err"]
Panic(s) == [cpu |-> s, res |-> "Panic"]

\* A faulty q that replaces the queue by the micro-op pushed.
q_overwrites(s, op) == [s EXCEPT !.queue = <<op>>]

\* the closure q of decode_op
q(s, op) == [s EXCEPT !.queue = Append(@, op)]

\* An entry of a decode arm: the micro-op pushed, and the k of the
\* self.pc+k its address is computed from (0: no address arithmetic).
At(k, op) == [off |-> k, uop |-> op]

WithAddr(op, a) ==
    IF op.op = "ReadPC" THEN [op EXCEPT !.addr = a]
    ELSE IF op.op = "Read" /\ op.src.kind = "Address" THEN [op EXCEPT !.src.v = a]
    ELSE op

\* The q(..) calls of one arm, in order.  self.pc+k is a u16 addition: it
\* panics when the build checks overflow and wraps otherwise.
RECURSIVE q_all(_, _)
q_all(s, items) ==
    IF items = <<>> THEN Ok(s)
    ELSE LET it == Head(items)
             a == s.pc + it.off
         IN IF it.off > 0 /\ a >= U16 /\ overflow_checks THEN Panic(s)
            ELSE q_all(q(s, WithAddr(it.uop, a % U16)), Tail(items))

\* self.pc += n
pc_add(s, n) ==
    IF s.pc + n >= U16 /\ overflow_checks THEN Panic(s)
    ELSE Ok([s EXCEPT !.pc = (s.pc + n) % U16])

\* One arm of the match: the pushes, then the pc adjustment.
arm(s, items, n) ==
    LET r == q_all(s, items)
    IN IF r.res = "Ok" THEN pc_add(r.cpu, n) ELSE r

\* A faulty arm _ => that steps over the byte before failing.
unsupported_skips(s, opcode) == Err([s EXCEPT !.pc = (s.pc + 1) % U16])

\* the arm _ => of the match
unsupported(s, opcode) == Err(s)

decode_op(s, opcode) ==
    IF Len(s.queue) # 0 THEN Panic(s)
    ELSE CASE opcode = 76  -> arm(s, <<At(1, ReadPC(TRUE, 0)), At(2, ReadPC(FALSE, 0))>>, 3)
           [] opcode = 132 -> arm(s, <<At(1, Read(Address(0), "Scratch1")),
                                      At(0, Write(RegVal("Scratch1"), "Y"))>>, 2)
           [] opcode = 133 -> arm(s, <<At(1, Read(Address(0), "Scratch1")),
                                      At(0, Write(RegVal("Scratch1"), "Acc"))>>, 2)
           [] opcode = 134 -> arm(s, <<At(1, Read(Address(0), "Scratch1")),
                                      At(0, Write(RegVal("Scratch1"), "X"))>>, 2)
           [] opcode = 160 -> arm(s, <<At(1, Read(Address(0), "Y"))>>, 2)
           [] opcode = 162 -> arm(s, <<At(1, Read(Address(0), "X"))>>, 2)
           [] opcode = 164 -> arm(s, <<At(1, Read(Address(0), "Scratch1")),
                                      At(0, Read(RegVal("Scratch1"), "Y"))>>, 2)
           [] opcode = 165 -> arm(s, <<At(1, Read(Address(0), "Acc")),
                                      At(0, Read(RegVal("Acc"), "Acc"))>>, 2)
           [] opcode = 166 -> arm(s, <<At(1, Read(Address(0), "X")),
                                      At(0, Read(RegVal("X"), "X"))>>, 2)
           [] opcode = 169 -> arm(s, <<At(1, Read(Address(0), "Acc"))>>, 2)
           [] opcode = 234 -> arm(s, <<At(0, Nop)>>, 1)
           [] OTHER -> unsupported(s, opcode)

-----------------------------------------------------------------------------
(* tick *)

\* A faulty reset queue, one Nop short.
ResetQueueShort ==
    <<Nop, Nop, Nop, Nop, Nop, ReadPC(TRUE, 65532), ReadPC(FALSE, 65533)>>

\* The queue a tick with n_reset low leaves.
ResetQueue ==
    <<Nop, Nop, Nop, Nop, Nop, Nop, ReadPC(TRUE, 65532), ReadPC(FALSE, 65533)>>

\* A faulty dispatcher that leaves sync up when it pops the queue.
start_uop_keeps_sync(s, posedge) ==
    IF posedge
    THEN IF Len(s.queue) > 0
         THEN [s EXCEPT !.queue = Tail(@), !.active_uop = Head(s.queue)]
         ELSE [s EXCEPT !.outputs = [zero(@) EXCEPT !.sync = TRUE],
                        !.active_uop = Fetch]
    ELSE s

\* A faulty uop selection that fetches while one micro-op is still queued.
start_uop_early_fetch(s, posedge) ==
    IF posedge
    THEN IF Len(s.queue) > 1
         THEN [s EXCEPT !.outputs.sync = FALSE, !.queue = Tail(@),
                        !.active_uop = Head(s.queue)]
         ELSE [s EXCEPT !.outputs = [zero(@) EXCEPT !.sync = TRUE],
                        !.active_uop = Fetch]
    ELSE s

\* let op = if posedge {..} else {self.active_uop}; self.active_uop = op;
start_uop(s, posedge) ==
    IF posedge
    THEN IF Len(s.queue) > 0
         THEN [s EXCEPT !.outputs.sync = FALSE,
                        !.queue = Tail(@),
                        !.active_uop = Head(s.queue)]
         ELSE [s EXCEPT !.outputs = [zero(@) EXCEPT !.sync = TRUE],
                        !.active_uop = Fetch]
    ELSE s

\* A faulty match that presents the data of a Write at the falling edge only.
exec_uop_late_data(s, posedge, data) ==
    LET op == s.active_uop
    IN CASE op.op = "Nop" -> Ok(set_addr(s, s.pc))
         [] op.op = "Write" ->
                IF posedge THEN Ok(set_addr(s, source(s, op.dst)))
                ELSE Ok(set_data(set_addr(s, source(s, op.dst)), mut_reg(s, op.val)))
         [] op.op = "Fetch" ->
                IF posedge THEN Ok(set_addr(s, s.pc)) ELSE decode_op(s, data)
         [] op.op = "Read" ->
                IF posedge THEN Ok(set_addr(s, source(s, op.src)))
                ELSE Ok(mut_reg_set(s, op.reg, data))
         [] op.op = "ResetRegs" -> Ok(s)
         [] op.op = "ReadPC" ->
                IF posedge THEN Ok(set_addr(s, op.addr))
                ELSE IF op.first
                     THEN Ok([s EXCEPT !.pc = ((s.pc \div U8) * U8) + data])
                     ELSE Ok([s EXCEPT !.pc = (s.pc % U8) + (data * U8)])

\* match op {..}
exec_uop(s, posedge, data) ==
    LET op == s.active_uop
    IN CASE op.op = "Nop" -> Ok(set_addr(s, s.pc))
         [] op.op = "Write" ->
                Ok(set_data(set_addr(s, source(s, op.dst)), mut_reg(s, op.val)))
         [] op.op = "Fetch" ->
                IF posedge THEN Ok(set_addr(s, s.pc)) ELSE decode_op(s, data)
         [] op.op = "Read" ->
                IF posedge THEN Ok(set_addr(s, source(s, op.src)))
                ELSE Ok(mut_reg_set(s, op.reg, data))
         [] op.op = "ResetRegs" -> Ok(s)
         [] op.op = "ReadPC" ->
                IF posedge THEN Ok(set_addr(s, op.addr))
                ELSE IF op.first
                     THEN Ok([s EXCEPT !.pc = ((s.pc \div U8) * U8) + data])
                     ELSE Ok([s EXCEPT !.pc = (s.pc % U8) + (data * U8)])

\* A faulty tick() that stores the clock level while n_reset is low.
tick_reset_stores_clk(s, in) ==
    IF ~in.n_reset THEN Ok([s EXCEPT !.queue = ResetQueue, !.prev_clk = in.clk])
    ELSE LET posedge == ~s.prev_clk /\ in.clk
             r == exec_uop(start_uop(s, posedge), posedge, in.data)
         IN IF r.res = "Ok" THEN Ok([r.cpu EXCEPT !.prev_clk = in.clk]) ELSE r

\* fn tick: the reset branch, else select the uop, run it, store the clock
tick(s, in) ==
    IF ~in.n_reset THEN Ok([s EXCEPT !.queue = ResetQueue])
    ELSE LET posedge == ~s.prev_clk /\ in.clk
             r == exec_uop(start_uop(s, posedge), posedge, in.data)
         IN IF r.res = "Ok" THEN Ok([r.cpu EXCEPT !.prev_clk = in.clk]) ELSE r

-----------------------------------------------------------------------------
(* cycle *)

cycle(s, in) ==
    LET lo == tick(s, [in EXCEPT !.clk = FALSE])
    IN IF lo.res # "Ok" THEN lo ELSE tick(lo.cpu, [in EXCEPT !.clk = TRUE])

-----------------------------------------------------------------------------
(* The driver: cycle(), called with any inputs *)

\* The bytes the data bus carries.  While a fetch is active: the eleven
\* opcodes of decode_op, and 0x00 and 0xFF, which it does not decode.
\* While a Read or ReadPC is active (operands, vectors): 0x00, 0xFF.
\* On a cycle whose ticks do not read inputs.data: 0x00.
Opcodes == {76, 132, 133, 134, 160, 162, 164, 165, 166, 169, 234}
OpBytes == Opcodes \cup {0, 255}
OperandBytes == {0, 255}
DataBytes(s, nr) ==
    IF ~nr THEN {0}
    ELSE IF s.active_uop.op = "Fetch" THEN OpBytes
    ELSE IF s.active_uop.op \in {"Read", "ReadPC"} THEN OperandBytes
    ELSE {0}

Idle == [clk |-> FALSE, n_reset |-> TRUE, data |-> 0]
NoVec == [lo |-> 0, hi |-> 0]
NoInstr == [op |-> 0, n |-> 0]
NoRt == [st |-> 0, z |-> 0, b |-> 0]

\* Bookkeeping for a cycle() call that passes n_reset = nr and data = d
\* and returns res.
Track(nr, d, res) ==
    LET rel == IF ~nr \/ (resets = 0 /\ inputs.n_reset) THEN 0
               ELSE IF sinceRel < TrackLen THEN sinceRel + 1 ELSE sinceRel
        dec == nr /\ cpu.active_uop.op = "Fetch"
    IN /\ decodes' = IF dec THEN decodes + 1 ELSE decodes
       /\ resets' = IF ~nr /\ inputs.n_reset THEN resets + 1 ELSE resets
       /\ held' = IF ~nr
                  THEN IF inputs.n_reset THEN 1
                       ELSE IF held < MaxHeld THEN held + 1 ELSE held
                  ELSE IF rel >= TrackLen THEN 0 ELSE held
       /\ ran' = (ran \/ nr)
       /\ lateReset' = (lateReset \/ (~nr /\ ran))
       /\ sinceRel' = rel
       /\ vec' = IF rel = 0 \/ rel >= TrackLen THEN NoVec
                 ELSE IF cpu.outputs.address = 65532 THEN [vec EXCEPT !.lo = d]
                 ELSE IF cpu.outputs.address = 65533 THEN [vec EXCEPT !.hi = d]
                 ELSE vec
       /\ instr' = IF ~nr THEN NoInstr
                   ELSE IF res # "Ok" THEN instr
                   ELSE IF dec THEN [op |-> d, n |-> 1]
                   ELSE IF instr.op = 0 THEN instr
                   ELSE [instr EXCEPT !.n = @ + 1]

Cycle ==
    /\ result # "Panic"
    /\ \E nr \in BOOLEAN : \E d \in DataBytes(cpu, nr) :
          LET in == [clk |-> FALSE, n_reset |-> nr, data |-> d]
              r == cycle(cpu, in)
          IN /\ (nr /\ cpu.active_uop.op = "Fetch") => decodes < MaxInstr
             /\ (~nr /\ inputs.n_reset) => resets < MaxResets
             /\ cpu' = r.cpu
             /\ result' = r.res
             /\ inputs' = in
             /\ Track(nr, d, r.res)
    /\ UNCHANGED <<overflow_checks, mem, rt, edge>>

Init ==
    /\ cpu = W6502New
    /\ result = "Ok"
    /\ inputs = Idle
    /\ decodes = 0
    /\ resets = 0
    /\ held = 0
    /\ overflow_checks \in BOOLEAN
    /\ ran = FALSE
    /\ lateReset = FALSE
    /\ sinceRel = 0
    /\ vec = NoVec
    /\ instr = NoInstr
    /\ mem = <<>>
    /\ rt = NoRt
    /\ edge = FALSE

Next == Cycle

Spec == Init /\ [][Next]_vars

-----------------------------------------------------------------------------
(* The harness of trace_tests.rs: reset_model, then one cycle() per line  *)
(* with the data byte taken from the memory at the address driven.  The   *)
(* memory here also stores what the CPU writes.                           *)

\* RESET_CYCLES of test_reset, the 2 of reset_model
ResetCycles == 2

\* A memory image: the reset vector points at base, where the program
\* LDA #b; STA z; LDA z2 sits; NOPs everywhere else.
Image(base, b, z, z2) ==
    [base |-> base, prog |-> <<169, b, 133, z, 165, z2>>, w |-> <<>>]

ImageBases == {16, 512}
ImageBytes == {0, 66, 165, 255}
ImageZps == {0, 16, 19, 20, 21, 255}

\* environment[cpu.outputs().address]
MemRead(m, a) ==
    IF a \in DOMAIN m.w THEN m.w[a]
    ELSE IF a = 65532 THEN m.base % U8
    ELSE IF a = 65533 THEN m.base \div U8
    ELSE IF a >= m.base /\ a < m.base + Len(m.prog) THEN m.prog[a - m.base + 1]
    ELSE 234

\* The memory latches the byte the CPU drives when rwb = 0.
MemWrite(m, o) ==
    IF ~o.rwb /\ o.data.some
    THEN [m EXCEPT !.w = (o.address :> o.data.v) @@ @]
    ELSE m

\* Progress of a STA zpg (0x85) / LDA zpg (0xA5) pair, read off the
\* instruction stream: 1 STA has written b = A to z, 2 the next opcode is
\* LDA zpg, 3 its operand is z, 4 the LDA has completed.
RoundTrip(d, c, i) ==
    IF i = [op |-> 133, n |-> 2]
    THEN [st |-> 1, z |-> c.outputs.address, b |-> c.acc]
    ELSE IF rt.st = 1 /\ i = [op |-> 133, n |-> 3] THEN rt
    ELSE IF rt.st = 1 /\ i = [op |-> 165, n |-> 1] THEN [rt EXCEPT !.st = 2]
    ELSE IF rt.st = 2 /\ i = [op |-> 165, n |-> 2] /\ d = rt.z THEN [rt EXCEPT !.st = 3]
    ELSE IF rt.st = 3 /\ i = [op |-> 165, n |-> 3] THEN [rt EXCEPT !.st = 4]
    ELSE NoRt

\* reset_model: cycle() with n_reset low, RESET_CYCLES times
MemReset ==
    /\ ~ran /\ held < ResetCycles
    /\ LET in == [clk |-> FALSE, n_reset |-> FALSE, data |-> 202]
           r == cycle(cpu, in)
       IN /\ cpu' = r.cpu
          /\ result' = r.res
          /\ inputs' = in
          /\ Track(FALSE, 202, r.res)
    /\ UNCHANGED <<overflow_checks, mem, rt, edge>>

\* assert_model_log: cycle() with data = environment[address], n_reset high
MemCycle ==
    /\ result # "Panic"
    /\ ran \/ held = ResetCycles
    /\ (cpu.active_uop.op = "Fetch") => decodes < MaxMemInstr
    /\ LET m == MemWrite(mem, cpu.outputs)
           d == MemRead(m, cpu.outputs.address)
           in == [clk |-> FALSE, n_reset |-> TRUE, data |-> d]
           r == cycle(cpu, in)
       IN /\ cpu' = r.cpu
          /\ result' = r.res
          /\ inputs' = in
          /\ mem' = m
          /\ Track(TRUE, d, r.res)
          /\ rt' = RoundTrip(d, r.cpu, instr')
    /\ UNCHANGED <<overflow_checks, edge>>

InitMem ==
    /\ cpu = W6502New
    /\ result = "Ok"
    /\ inputs = Idle
    /\ decodes = 0
    /\ resets = 0
    /\ held = 0
    /\ overflow_checks \in BOOLEAN
    /\ ran = FALSE
    /\ lateReset = FALSE
    /\ sinceRel = 0
    /\ vec = NoVec
    /\ instr = NoInstr
    /\ \E base \in ImageBases, b \in ImageBytes, z \in ImageZps, z2 \in ImageZps :
          mem = Image(base, b, z, z2)
    /\ rt = NoRt
    /\ edge = FALSE

NextMem == MemReset \/ MemCycle

SpecMem == InitMem /\ [][NextMem]_vars

-----------------------------------------------------------------------------
(* The NOP loop: reset_model, then cycle() against a memory that holds    *)
(* 0xEA at every address.                                                *)

\* The NOP opcode of decode_op
NopByte == 234

NopCycle ==
    /\ result # "Panic"
    /\ ran \/ held = ResetCycles
    /\ LET in == [clk |-> FALSE, n_reset |-> TRUE, data |-> NopByte]
           r == cycle(cpu, in)
       IN /\ cpu' = r.cpu
          /\ result' = r.res
          /\ inputs' = in
          /\ ran' = TRUE
          /\ sinceRel' = IF sinceRel < TrackLen THEN sinceRel + 1 ELSE sinceRel
          /\ instr' = IF r.res # "Ok" THEN instr
                      ELSE IF cpu.active_uop.op = "Fetch" THEN [op |-> NopByte, n |-> 1]
                      ELSE IF instr.op = 0 THEN instr
                      ELSE [instr EXCEPT !.n = @ + 1]
    /\ UNCHANGED <<decodes, resets, held, overflow_checks, lateReset, vec, mem, rt, edge>>

NextNop == MemReset \/ NopCycle

SpecNop == Init /\ [][NextNop]_vars

-----------------------------------------------------------------------------
(* The bare interface: tick(), called with any clock level, any n_reset   *)
(* and any data, in any order.                                            *)

\* The bytes the data bus carries on a tick: as DataBytes on the ticks
\* that read inputs.data, 0x00 on the others.
TickBytes(s, clk, nr) ==
    IF ~nr \/ (~s.prev_clk /\ clk) THEN {0}
    ELSE IF s.active_uop.op = "Fetch" THEN OpBytes
    ELSE IF s.active_uop.op \in {"Read", "ReadPC"} THEN OperandBytes
    ELSE {0}

Tick ==
    /\ result # "Panic"
    /\ \E clk \in BOOLEAN, nr \in BOOLEAN : \E d \in TickBytes(cpu, clk, nr) :
          LET in == [clk |-> clk, n_reset |-> nr, data |-> d]
              posedge == nr /\ ~cpu.prev_clk /\ clk
              dec == nr /\ ~posedge /\ cpu.active_uop.op = "Fetch"
              r == tick(cpu, in)
          IN /\ dec => decodes < MaxInstr
             /\ (~nr /\ inputs.n_reset) => resets < MaxResets
             /\ cpu' = r.cpu
             /\ result' = r.res
             /\ inputs' = in
             /\ decodes' = IF dec THEN decodes + 1 ELSE decodes
             /\ resets' = IF ~nr /\ inputs.n_reset THEN resets + 1 ELSE resets
             /\ ran' = (ran \/ nr)
             /\ edge' = posedge
    /\ UNCHANGED <<held, overflow_checks, lateReset, sinceRel, vec, instr, mem, rt>>

NextTick == Tick

SpecTick == Init /\ [][NextTick]_vars

-----------------------------------------------------------------------------
(* Observations of the bus at the end of a cycle() call *)

out == cpu.outputs
active == cpu.active_uop.op
Reading == out.rwb /\ ~out.data.some
Writing(v) == ~out.rwb /\ out.data = Some(v)

\* The latest call had n_reset low.
ResetHeld == ~inputs.n_reset
\* The latest call was the k-th after n_reset was released.
Released(k) == inputs.n_reset /\ sinceRel = k
\* The address formed by the two vector bytes the bus returned.
Vector == vec.hi * U8 + vec.lo

\* The documented length of each opcode of decode_op.
Length(opcode) ==
    CASE opcode = 234 -> 1
      [] opcode = 76 -> 3
      [] OTHER -> 2

\* The register each zero-page store writes out.
StoreReg(opcode) ==
    CASE opcode = 133 -> "Acc"
      [] opcode = 134 -> "X"
      [] opcode = 132 -> "Y"

-----------------------------------------------------------------------------
(* C1 *)

\* C1: on a freshly constructed CPU reset for 2 cycles, each of the six
\* cycles after the release ends with rwb = 1, the 7th drives 0xFFFC, the
\* 8th drives 0xFFFD, and the 9th is a fetch (rwb = 1, sync = 1) at the
\* address hi*256 + lo formed by the bytes returned for the two vector reads.
C1_ResetVector ==
    (~lateReset /\ held = 2) =>
        /\ (\E k \in 1..6 : Released(k)) => (out.rwb /\ result = "Ok")
        /\ Released(7) => (out.address = 65532 /\ result = "Ok")
        /\ Released(8) => (out.address = 65533 /\ result = "Ok")
        /\ Released(9) => /\ result = "Ok"
                          /\ active = "Fetch"
                          /\ out.address = Vector
                          /\ out.rwb
                          /\ out.sync

C1_Witness ==
    /\ ~lateReset /\ held = 2 /\ Released(9)
    /\ vec = [lo |-> 0, hi |-> 255]
    /\ out.address = 65280
    /\ active = "Fetch"

-----------------------------------------------------------------------------
(* C2 *)

\* C2: while n_reset is held low, and on each of the six cycles after its
\* release, the pins show a read: rwb = 1 and no outgoing data, whatever
\* micro-op was active when n_reset went low.
C2_NoWriteInReset ==
    (ResetHeld \/ \E k \in 1..6 : Released(k)) => Reading

-----------------------------------------------------------------------------
(* C3 *)

\* C3: when n_reset is driven low during execution and later released, every
\* call up to the fetch succeeds, the 7th cycle after the release drives
\* 0xFFFC, the 8th 0xFFFD, and the 9th is a fetch at the address formed by
\* the two bytes read.
C3_ResetDuringExecution ==
    (lateReset /\ \E k \in 1..9 : Released(k)) =>
        /\ result = "Ok"
        /\ Released(7) => out.address = 65532
        /\ Released(8) => out.address = 65533
        /\ Released(9) => (active = "Fetch" /\ out.sync /\ out.address = Vector)

-----------------------------------------------------------------------------
(* C4 *)

\* C4: at the end of every cycle sync = 1 exactly when the active micro-op
\* is Fetch (so sync = 0 on a fresh CPU and on preamble and vector-read
\* cycles), and the cycle after a fetch whose opcode decoded is never a
\* fetch: sync is 1 for one cycle per instruction.
SyncIffFetch == out.sync <=> (active = "Fetch")

OneFetchPerInstruction ==
    (active = "Fetch" /\ inputs'.n_reset /\ result' = "Ok")
        => (cpu'.active_uop.op # "Fetch" /\ ~cpu'.outputs.sync)

-----------------------------------------------------------------------------
(* C5 *)

\* C5: in a run whose only reset is the initial one, at the end of every
\* cycle rwb = 0 with outgoing data present exactly when the active micro-op
\* is a Write, rwb = 1 with no outgoing data otherwise, and a fetch cycle
\* shows rwb = 1, no data and sync = 1.
C5_RwbIffWrite ==
    ~lateReset =>
        /\ (active = "Write") => (~out.rwb /\ out.data.some)
        /\ (active # "Write") => Reading
        /\ (active = "Fetch") => (Reading /\ out.sync)

\* The fetch that follows the write cycle of a STA zpg.
C5_Witness ==
    /\ ~lateReset /\ resets = 1
    /\ instr = [op |-> 133, n |-> 3]
    /\ active = "Fetch" /\ Reading /\ out.sync

-----------------------------------------------------------------------------
(* C6 *)

\* C6: when a fetch is active with the queue empty and the byte on the data
\* bus is not a supported opcode, the call returns an error and changes
\* nothing: registers, scratch, queue and pins are as before, and the pins
\* show address = PC, sync = 1, rwb = 1 and no outgoing data.
UnsupportedFetch ==
    /\ result # "Panic"
    /\ active = "Fetch" /\ cpu.queue = <<>>
    /\ inputs'.n_reset /\ inputs'.data \notin Opcodes

C6_UnsupportedOpcode ==
    [][UnsupportedFetch =>
          /\ result' = "Err"
          /\ cpu' = cpu
          /\ cpu'.queue = <<>>
          /\ cpu'.outputs = [address |-> cpu'.pc, data |-> None,
                             rwb |-> TRUE, sync |-> TRUE]]_vars

C6_Witness ==
    /\ result = "Err"
    /\ inputs.data = 255
    /\ active = "Fetch" /\ cpu.queue = <<>>
    /\ out.address = cpu.pc /\ cpu.pc = 65280

-----------------------------------------------------------------------------
(* C7 *)

\* C7: decoding a supported opcode succeeds and leaves PC = the pre-decode
\* PC plus the instruction's length, as a 16-bit value.
SupportedFetch ==
    /\ result # "Panic"
    /\ active = "Fetch" /\ cpu.queue = <<>>
    /\ inputs'.n_reset /\ inputs'.data \in Opcodes

C7_PcAfterDecode ==
    [][SupportedFetch =>
          /\ result' = "Ok"
          /\ cpu'.pc = (cpu.pc + Length(inputs'.data)) % U16]_vars

-----------------------------------------------------------------------------
(* C8 *)

\* The byte of a load has been written to its register in the latest call.
Loaded ==
    /\ inputs.n_reset /\ result = "Ok"
    /\ \/ instr.op \in {169, 162, 160} /\ instr.n = 2
       \/ instr.op \in {165, 166, 164} /\ instr.n = 3

FlagN == (cpu.flags \div 128) % 2
FlagZ == (cpu.flags \div 2) % 2

\* C8: once a load has written its register with the byte v, N = bit 7 of
\* v and Z = 1 exactly when v = 0.
C8_LoadFlags ==
    Loaded => /\ FlagN = inputs.data \div 128
              /\ (FlagZ = 1) <=> (inputs.data = 0)

-----------------------------------------------------------------------------
(* C9 *)

\* C9: with a memory that stores what the CPU writes, once STA zpg has
\* written the byte B held in A to the zero-page address Z and the LDA zpg
\* of the same Z that follows it has completed, A = B.
C9_RoundTrip == (rt.st = 4) => (cpu.acc = rt.b)

\* LDA #0x42; STA 0x13; LDA 0x13 at 0x0010: the store lands on the STA's
\* own operand byte.
C9_Witness ==
    /\ rt = [st |-> 4, z |-> 19, b |-> 66]
    /\ mem.base = 16
    /\ 19 \in DOMAIN mem.w
    /\ cpu.acc = 66

-----------------------------------------------------------------------------
(* C10 *)

\* C10: on the second cycle after the fetch of STA, STX or STY zero page,
\* the last of the instruction, the bus shows address = the operand byte
\* read in the preceding cycle, rwb = 0 and outgoing data = A, X or Y.
C10_StoreZeroPage ==
    (instr.op \in {132, 133, 134} /\ instr.n = 2) =>
        /\ result = "Ok"
        /\ active = "Write" /\ cpu.queue = <<>>
        /\ out.address = inputs.data
        /\ Writing(mut_reg(cpu, StoreReg(instr.op)))

\* LDA #0 then STA 0xFF: the bus shows 0x00FF, rwb = 0, data 0.
C10_Witness ==
    /\ instr = [op |-> 133, n |-> 2]
    /\ cpu.acc = 0 /\ inputs.data = 255
    /\ out.address = 255 /\ Writing(0)

-----------------------------------------------------------------------------
(* C11 *)

\* The pins o carry a read that is not an opcode fetch, at address a.
OperandRead(o, a) == o.address = a /\ o.rwb /\ ~o.data.some /\ ~o.sync
\* The pins o carry an opcode fetch at address a.
OpcodeFetch(o, a) == o.address = a /\ o.rwb /\ ~o.data.some /\ o.sync

JmpFetched ==
    /\ SupportedFetch /\ OpcodeFetch(out, cpu.pc)
    /\ inputs'.data = 76
JmpOperand(k) ==
    /\ result = "Ok" /\ instr = [op |-> 76, n |-> k]
    /\ inputs'.n_reset

\* C11: for JMP abs (0x4C) fetched at any address P with operand bytes lo
\* and hi, the bus carries the fetch at P (sync = 1), a read at P+1, a read
\* at P+2, and then a fetch (sync = 1) at hi*256 + lo; all four are reads.
C11_JmpAbs ==
    /\ [][JmpFetched =>
             /\ result' = "Ok"
             /\ OperandRead(out', (cpu.pc + 1) % U16)]_vars
    /\ [][JmpOperand(1) =>
             /\ result' = "Ok"
             /\ OperandRead(out', (out.address + 1) % U16)]_vars
    /\ [][JmpOperand(2) =>
             /\ result' = "Ok"
             /\ OpcodeFetch(out', inputs'.data * U8 + inputs.data)]_vars

-----------------------------------------------------------------------------
(* C12 *)

\* The reset sequence is over: the first fetch starts in the ninth cycle
\* after the release.
InLoop == inputs.n_reset /\ sinceRel >= 9
FetchCycle == active = "Fetch" /\ OpcodeFetch(out, cpu.pc)
StallCycle == active = "Nop" /\ OperandRead(out, cpu.pc)

\* C12: with 0xEA on the data bus at every address after reset, execution
\* alternates for ever, without tick ever failing, between a fetch cycle
\* (sync = 1, address = PC) and a stall cycle (sync = 0, address = the PC
\* as advanced by the decode, which the next fetch drives too).
C12_NopLoop ==
    /\ [](InLoop => (result = "Ok" /\ (FetchCycle \/ StallCycle)))
    /\ [][(InLoop /\ FetchCycle) =>
             (StallCycle' /\ out'.address = (out.address + 1) % U16)]_vars
    /\ [][(InLoop /\ StallCycle) =>
             (FetchCycle' /\ out'.address = out.address)]_vars

-----------------------------------------------------------------------------
(* C13 *)

\* The CPU s after n calls of cycle() with n_reset = nr.
RECURSIVE Run(_, _, _)
Run(s, n, nr) ==
    IF n = 0 THEN s
    ELSE Run(cycle(s, [clk |-> FALSE, n_reset |-> nr, data |-> 0]).cpu, n - 1, nr)

\* The pins of the execution without prior history, k cycles after the
\* release of a reset held for ResetCycles cycles.
FreshOut(k) == Run(Run(W6502New, ResetCycles, FALSE), k, TRUE).outputs

\* C13: any two executions in which n_reset is held low for at least 2
\* cycles and then released show the same pins (address, rwb, outgoing data,
\* sync) on every cycle from the release up to and including the two vector
\* reads, whatever their prior history: here, the same as the execution
\* without prior history.
C13_ResetIdempotence ==
    \A k \in 1..8 : (Released(k) /\ held >= ResetCycles) => out = FreshOut(k)

-----------------------------------------------------------------------------
(* C15 *)

\* The next tick() call sees a rising clock edge.
RisingEdge == inputs'.n_reset /\ ~cpu.prev_clk /\ inputs'.clk
\* The next tick() call hands inputs.data to decode_op.
DecoderInvoked ==
    /\ result # "Panic"
    /\ inputs'.n_reset /\ ~RisingEdge
    /\ active = "Fetch"

\* C15: whatever the sequence of tick calls (any clk, n_reset and data, in
\* any order), the queue is empty whenever decode_op is invoked, so its
\* assertion never fails and tick never aborts (it returns Ok, or the error
\* for an unsupported opcode).
C15_DecodeQueueEmpty ==
    [][DecoderInvoked => (cpu.queue = <<>> /\ result' # "Panic")]_vars

-----------------------------------------------------------------------------
(* C16 *)

\* The micro-ops decode_op queues for an opcode, fetched at address 0.
MicroOps(opcode) == decode_op([W6502New EXCEPT !.pc = 0], opcode).cpu.queue
\* A queue with the addresses computed from PC blanked.
Unplaced(sq) == [i \in 1..Len(sq) |-> WithAddr(sq[i], 0)]

\* sq is a contiguous piece of the micro-ops of one opcode.
OfOneInstruction(sq) ==
    \/ sq = <<>>
    \/ LET u == Unplaced(sq)
       IN \E o \in Opcodes :
             LET m == Unplaced(MicroOps(o))
             IN \E i \in 1..(Len(m) - Len(u) + 1) : u = SubSeq(m, i, i + Len(u) - 1)
\* sq is a tail of the reset sequence.
OfResetSequence(sq) ==
    \E i \in 1..(Len(ResetQueue) + 1) : sq = SubSeq(ResetQueue, i, Len(ResetQueue))

-----------------------------------------------------------------------------
(* C17 *)

\* The documented number of micro-ops of each opcode of decode_op.
MicroOpCount(opcode) == IF opcode \in {234, 169, 162, 160} THEN 1 ELSE 2

\* The CPU between the two ticks of the next cycle() call.
AfterFalling == tick(cpu, [inputs' EXCEPT !.clk = FALSE]).cpu

\* The cycles of the instruction in flight, counted from its fetch.
InFlight == inputs.n_reset /\ result = "Ok" /\ instr.op \in Opcodes

\* C17: a fetch that decodes a supported opcode leaves exactly the
\* documented number of micro-ops in the queue (1 for NOP and the immediate
\* loads, 2 for JMP abs and the zero-page loads and stores); every cycle
\* after it removes exactly one and adds none, so the next fetch starts that
\* many cycles plus one after the previous fetch, at most 3 cycles later.
C17_Timing ==
    /\ [][(SupportedFetch /\ result' = "Ok") =>
             /\ Len(AfterFalling.queue) = MicroOpCount(inputs'.data)
             /\ Len(cpu'.queue) = MicroOpCount(inputs'.data) - 1]_vars
    /\ [][(result # "Panic" /\ inputs'.n_reset /\ active # "Fetch") =>
             IF cpu.queue = <<>>
             THEN cpu'.queue = <<>> /\ cpu'.active_uop.op = "Fetch"
             ELSE cpu'.queue = Tail(cpu.queue) /\ cpu'.active_uop.op # "Fetch"]_vars
    /\ [](InFlight =>
             /\ instr.n <= MicroOpCount(instr.op) + 1
             /\ instr.n <= 3
             /\ (active = "Fetch") <=> (instr.n = MicroOpCount(instr.op) + 1)
             /\ instr.n <= MicroOpCount(instr.op)
                   => Len(cpu.queue) = MicroOpCount(instr.op) - instr.n)

\* The fetch after a JMP abs has started, in the third cycle after the
\* JMP's own fetch.
C17_Witness ==
    /\ InFlight /\ instr = [op |-> 76, n |-> 3]
    /\ active = "Fetch" /\ cpu.queue = <<>>

-----------------------------------------------------------------------------
(* C18 *)

\* The next tick() call has n_reset high and the clock level of the
\* previous call, which had n_reset high too and stored that level.
SameLevel ==
    /\ ran /\ result # "Panic"
    /\ inputs.n_reset /\ inputs'.n_reset
    /\ inputs'.clk = inputs.clk /\ cpu.prev_clk = inputs.clk

\* C18: a tick with n_reset high and the clock level of the previous call is
\* tolerated: it starts no micro-op, it does not abort, and it performs the
\* falling-phase action of the active micro-op (taking the data byte, or
\* decoding it) if and only if that level is low; at the high level it
\* leaves the CPU as it was.
C18_SameLevel ==
    [][SameLevel =>
          /\ result' # "Panic"
          /\ cpu'.active_uop = cpu.active_uop
          /\ inputs'.clk => cpu' = cpu
          /\ (~inputs'.clk /\ result' = "Ok")
                => cpu' = exec_uop(cpu, FALSE, inputs'.data).cpu]_vars

-----------------------------------------------------------------------------
(* C19 *)

\* The CPU apart from its queue.
Frame(s) == [s EXCEPT !.queue = <<>>]

CanonicalResetQueue ==
    <<[op |-> "Nop"], [op |-> "Nop"], [op |-> "Nop"],
      [op |-> "Nop"], [op |-> "Nop"], [op |-> "Nop"],
      [op |-> "ReadPC", first |-> TRUE, addr |-> 65532],
      [op |-> "ReadPC", first |-> FALSE, addr |-> 65533]>>

\* C19: a tick with n_reset low changes nothing but the queue (PC, A, X, Y,
\* SP, flags, scratch, the active micro-op, the stored clock level and every
\* output pin stay), and the queue after it is six Nop, then
\* ReadPC{first: true, addr: 0xFFFC} and ReadPC{first: false, addr: 0xFFFD},
\* however many such ticks come in a row and whatever the queue held.
C19_ResetFrame ==
    /\ [][(result # "Panic" /\ ~inputs'.n_reset) =>
             /\ result' = "Ok"
             /\ Frame(cpu') = Frame(cpu)
             /\ cpu'.queue = CanonicalResetQueue]_vars
    /\ [](ResetHeld => cpu.queue = CanonicalResetQueue)

\* n_reset has gone low during the write cycle of a store, at the other
\* clock level than the one stored.
C19_Witness ==
    /\ ResetHeld /\ result = "Ok"
    /\ active = "Write" /\ ~out.rwb /\ out.data.some
    /\ cpu.prev_clk # inputs.clk
    /\ cpu.queue = CanonicalResetQueue

-----------------------------------------------------------------------------
(* C20 *)

\* The latest tick() call saw the rising edge of a cycle, and the next one
\* is its falling edge, with n_reset high.
FallingEdge ==
    /\ result = "Ok" /\ edge /\ inputs.n_reset
    /\ inputs'.n_reset /\ ~inputs'.clk

\* C20: in a cycle with n_reset high, the falling-edge tick leaves the pins
\* as the rising-edge tick set them: address, rwb, outgoing data and sync do
\* not change at the falling edge, whatever micro-op is active.
C20_PinsStable ==
    [][FallingEdge => cpu'.outputs = cpu.outputs]_vars

\* The falling edge of the write cycle of a store has passed, the byte
\* still on the pins.
C20_Witness ==
    /\ ~edge /\ inputs.n_reset /\ ~inputs.clk /\ ~cpu.prev_clk
    /\ result = "Ok"
    /\ active = "Write" /\ ~out.rwb /\ out.data.some

-----------------------------------------------------------------------------
(* C21 *)

\* LDY, LDA, LDX zero page
LoadZpg == {164, 165, 166}
\* The register a zero-page load writes.
LoadDest(s, opcode) ==
    CASE opcode = 165 -> s.acc
      [] opcode = 166 -> s.x
      [] opcode = 164 -> s.y
\* The other two of A, X, Y, and SP.
LoadRest(s, opcode) ==
    CASE opcode = 165 -> <<s.x, s.y, s.sp>>
      [] opcode = 166 -> <<s.acc, s.y, s.sp>>
      [] opcode = 164 -> <<s.acc, s.x, s.sp>>

LoadFetched ==
    /\ SupportedFetch /\ OpcodeFetch(out, cpu.pc)
    /\ inputs'.data \in LoadZpg
LoadCycle(k) ==
    /\ result = "Ok" /\ instr.op \in LoadZpg /\ instr.n = k
    /\ inputs'.n_reset

\* C21: for LDA, LDX and LDY zero page (0xA5, 0xA6, 0xA4) fetched at P with
\* operand byte Z, the bus carries the fetch at P, a read at P+1 (which
\* returns Z) and a read at Z zero-extended to 16 bits (which returns v);
\* when the instruction completes its register equals v, and the other two
\* of A, X, Y and SP are as they were before it.
C21_LoadZeroPage ==
    /\ [][LoadFetched =>
             /\ result' = "Ok"
             /\ OperandRead(out', (cpu.pc + 1) % U16)
             /\ LoadRest(cpu', inputs'.data) = LoadRest(cpu, inputs'.data)]_vars
    /\ [][LoadCycle(1) =>
             /\ result' = "Ok"
             /\ OperandRead(out', inputs'.data)
             /\ LoadRest(cpu', instr.op) = LoadRest(cpu, instr.op)]_vars
    /\ [][LoadCycle(2) =>
             /\ result' = "Ok"
             /\ cpu'.active_uop.op = "Fetch"
             /\ LoadDest(cpu', instr.op) = inputs'.data
             /\ LoadRest(cpu', instr.op) = LoadRest(cpu, instr.op)]_vars

-----------------------------------------------------------------------------
(* C22 *)

\* C22: in every reachable state, after any sequence of ticks, resets and
\* failed decodes included, the outgoing data is present if and only if
\* rwb = 0: the pins never show a write without data, nor data during a
\* read.
C22_DataIffWrite == out.data.some <=> ~out.rwb

\* A Nop of the reset sequence is active after a reset that interrupted a
\* write, whose byte is still on the pins.
C22_Witness ==
    /\ result = "Ok" /\ inputs.n_reset /\ resets > 0
    /\ active = "Nop"
    /\ ~out.rwb /\ out.data.some

====
